---------------------------- MODULE Spec2Model ----------------------------
(***************************************************************************)
(* The inventory CRUD service of src/server.js: eighteen Express routes    *)
(* over four tables (category, sub_category, component, sub_component),    *)
(* each route a chain of middleware (validateUUID, express-validator       *)
(* rules) followed by one awaited postgres statement and the mapping of    *)
(* its result to an HTTP response.                                         *)
(*                                                                         *)
(* A request is handled in two steps, as the code runs it: the synchronous *)
(* part up to `await sql`, and the continuation after the store has run    *)
(* the statement.  Several requests may be awaiting at once; the store     *)
(* runs each statement atomically.                                         *)
(***************************************************************************)
EXTENDS Integers, Sequences, FiniteSets, TLC

VARIABLES
    db,           \* the four tables of schema component_manager
    nextUuid,     \* how many identifiers the store has generated so far
    uuidValidate, \* what line 6 binds: "function" or "undefined"
    conn          \* per client connection: the request and its answer

vars == <<db, nextUuid, uuidValidate, conn>>

\* ------------------------------------------------------------------ bounds

\* Rows the store may create in one run (its identifier generator stops).
MaxRows == 1
\* Client connections, hence statements that may be awaiting at once.
MaxInFlight == 2

\* ------------------------------------------------------------------ values

\* A field that the JSON body does not carry (JavaScript's undefined).
Undefined == "<undefined>"
\* A JSON value that is not a string (a number, an object), as `note` may be.
NotAString == "<non-string>"
\* No :uuid parameter on the route.
NoParam == "<none>"

\* The n-th identifier the store generates in this run: a UUID-shaped text.
Uuid(n) == "uuid-" \o ToString(n)
Uuids == {Uuid(n) : n \in 1..MaxRows}
\* The identifiers of the rows an earlier run left in the database.
PersistedCategory == "uuid-a"
PersistedSubCategory == "uuid-b"
PersistedComponent == "uuid-c"
PersistedIds == {PersistedCategory, PersistedSubCategory, PersistedComponent}
AllUuids == Uuids \cup PersistedIds
\* A path parameter that is not UUID-shaped.
Malformed == "123"
PathParams == AllUuids \cup {Malformed}

\* The texts uuid-validate's pattern accepts, among those the model sends.
UuidShaped(text) == text \in AllUuids

\* ------------------------------------------------- express-validator rules

\* validator.js isInt: the text is a canonical decimal numeral; ToString is
\* the numeral of an integer, so the text is one iff some integer prints so.
NumeralRange == -9..9
IsNumeral(text) == \E n \in NumeralRange : ToString(n) = text
IntOf(text) == CHOOSE n \in NumeralRange : ToString(n) = text

\* The ISO-8601 texts among those the model sends.
Iso8601Texts == {"2024-01-15"}

\* One validator of a chain applied to a field's value; express-validator
\* turns the value to text first, and undefined to the empty text.
PassesNotEmpty(value) == value # Undefined /\ value # ""
PassesIsIntMin0(value) == value # Undefined /\ IsNumeral(value) /\ IntOf(value) >= 0
PassesIsISO8601(value) == value \in Iso8601Texts
PassesOptionalIsString(value) == value = Undefined \/ value # NotAString

Passes(rule, value) ==
    CASE rule.check = "notEmpty" -> PassesNotEmpty(value)
      [] rule.check = "isInt" -> PassesIsIntMin0(value)
      [] rule.check = "isISO8601" -> PassesIsISO8601(value)
      [] rule.check = "optionalIsString" -> PassesOptionalIsString(value)

Rule(path, check, msg) == [check |-> check, path |-> path, msg |-> msg]

CategoryRules ==
    << Rule("categoryName", "notEmpty", "Category name is required") >>

SubCategoryRules ==
    << Rule("subCategoryName", "notEmpty", "Sub-category name is required"),
       Rule("parent", "notEmpty", "Parent category UUID is required") >>

ComponentRules ==
    << Rule("reference", "notEmpty", "Reference is required"),
       Rule("quantity", "isInt", "Quantity must be a non-negative integer"),
       Rule("date_checked", "isISO8601", "Date must be in ISO8601 format"),
       Rule("category", "notEmpty", "Category UUID is required"),
       Rule("sub_category", "notEmpty", "Sub-category UUID is required") >>

SubComponentRules ==
    << Rule("super_uuid", "notEmpty", "Super UUID is required"),
       Rule("place", "notEmpty", "Place is required"),
       Rule("note", "optionalIsString", "Note must be a string") >>

\* The rules of `rules` that `body` fails, in the order the chains are declared.
FailedRules(rules, body) ==
    SelectSeq(rules, LAMBDA r : ~Passes(r, body[r.path]))

\* validationResult(req).array(): one error per failed rule.
AllErrors(rules, body) ==
    LET failed == FailedRules(rules, body)
    IN  [i \in 1..Len(failed) |-> [path |-> failed[i].path, msg |-> failed[i].msg]]

validationResult(rules, body) == AllErrors(rules, body)


\* ------------------------------------------------------------- the store

EmptyDb ==
    [category |-> {}, sub_category |-> {}, component |-> {}, sub_component |-> {}]

\* The identifiers a table holds.
Ids(table) == {r.uuid : r \in table}

\* What a statement gives back: the rows of RETURNING * / SELECT *, or the
\* error it was rejected with, and the tables as the statement leaves them.
\* `made` counts the identifiers the store generated for it.
Returned(rows, d, made) == [db |-> d, rows |-> rows, made |-> made, error |-> ""]
Rejected(msg, d) == [db |-> d, rows |-> {}, made |-> 0, error |-> msg]

UndefinedValue == "UNDEFINED_VALUE: Undefined values are not allowed"
FkViolation == "violates foreign key constraint"

\* The postgres client refuses a statement one of whose parameters is undefined
\* (no transform.undefined is configured on line 12); nothing is sent.
sql(d, params, result) ==
    IF Undefined \in params THEN Rejected(UndefinedValue, d) ELSE result

\* The foreign keys of the schema: the store rejects a statement that would
\* leave a reference to no row.
CategoryExists(d, id) == id \in Ids(d.category)
SubCategoryExists(d, id) == id \in Ids(d.sub_category)
ComponentExists(d, id) == id \in Ids(d.component)

CategoryReferenced(d, id) ==
    \/ \E r \in d.sub_category : r.parent = id
    \/ \E r \in d.component : r.category = id
SubCategoryReferenced(d, id) == \E r \in d.component : r.sub_category = id
ComponentReferenced(d, id) == \E r \in d.sub_component : r.super_uuid = id

\* INSERT ... RETURNING *: the store generates the row's identifier.
InsertRow(d, table, row, fkOk) ==
    IF ~fkOk THEN Rejected(FkViolation, d)
    ELSE Returned({row}, [d EXCEPT ![table] = @ \cup {row}], 1)

\* UPDATE ... WHERE uuid = id RETURNING *: no row matched gives no rows (and the
\* store checks no foreign key, having nothing to write).
UpdateRow(d, table, id, row, fkOk) ==
    IF id \notin Ids(d[table]) THEN Returned({}, d, 0)
    ELSE IF ~fkOk THEN Rejected(FkViolation, d)
    ELSE Returned({row},
                  [d EXCEPT ![table] = {r \in @ : r.uuid # id} \cup {row}], 0)

\* DELETE ... WHERE uuid = id RETURNING *: a row still referenced stays.
DeleteRow(d, table, id, referenced) ==
    IF id \notin Ids(d[table]) THEN Returned({}, d, 0)
    ELSE IF referenced THEN Rejected(FkViolation, d)
    ELSE Returned({r \in d[table] : r.uuid = id},
                  [d EXCEPT ![table] = {r \in @ : r.uuid # id}], 0)

\* ------------------------------------------------- the rows statements write

\* A variant that writes the wrong column value (the name is lost).
CategoryRowUnnamed(id, b) == [uuid |-> id, categoryName |-> ""]

CategoryRow(id, b) == [uuid |-> id, categoryName |-> b.categoryName]

SubCategoryRow(id, b) ==
    [uuid |-> id, parent |-> b.parent, subCategoryName |-> b.subCategoryName]

ComponentRow(id, b) ==
    [category |-> b.category, sub_category |-> b.sub_category, uuid |-> id,
     reference |-> b.reference, quantity |-> IntOf(b.quantity),
     date_checked |-> b.date_checked]

SubComponentRow(id, b) ==
    [uuid |-> id, super_uuid |-> b.super_uuid, place |-> b.place, note |-> b.note]

\* ------------------------------------------ the statement of each route

InsertCategory(d, n, b) ==
    sql(d, {b.categoryName}, InsertRow(d, "category", CategoryRow(Uuid(n), b), TRUE))

SelectCategories(d) == Returned(d.category, d, 0)

UpdateCategory(d, id, b) ==
    sql(d, {b.categoryName, id},
        UpdateRow(d, "category", id, CategoryRow(id, b), TRUE))

DeleteCategory(d, id) ==
    sql(d, {id}, DeleteRow(d, "category", id, CategoryReferenced(d, id)))

InsertSubCategory(d, n, b) ==
    sql(d, {b.subCategoryName, b.parent},
        InsertRow(d, "sub_category", SubCategoryRow(Uuid(n), b),
                  CategoryExists(d, b.parent)))

SelectSubCategories(d, id) ==
    sql(d, {id}, Returned({r \in d.sub_category : r.parent = id}, d, 0))

UpdateSubCategory(d, id, b) ==
    sql(d, {b.subCategoryName, b.parent, id},
        UpdateRow(d, "sub_category", id, SubCategoryRow(id, b),
                  CategoryExists(d, b.parent)))

DeleteSubCategory(d, id) ==
    sql(d, {id}, DeleteRow(d, "sub_category", id, SubCategoryReferenced(d, id)))

ComponentParams(b) ==
    {b.reference, b.quantity, b.date_checked, b.category, b.sub_category}

ComponentFkOk(d, b) ==
    CategoryExists(d, b.category) /\ SubCategoryExists(d, b.sub_category)

InsertComponent(d, n, b) ==
    sql(d, ComponentParams(b),
        InsertRow(d, "component", ComponentRow(Uuid(n), b), ComponentFkOk(d, b)))

SelectComponents(d) == Returned(d.component, d, 0)

SelectComponentsByCategory(d, id) ==
    sql(d, {id}, Returned({r \in d.component : r.category = id}, d, 0))

SelectComponentsBySubCategory(d, id) ==
    sql(d, {id}, Returned({r \in d.component : r.sub_category = id}, d, 0))

UpdateComponent(d, id, b) ==
    sql(d, ComponentParams(b) \cup {id},
        UpdateRow(d, "component", id, ComponentRow(id, b), ComponentFkOk(d, b)))

DeleteComponent(d, id) ==
    sql(d, {id}, DeleteRow(d, "component", id, ComponentReferenced(d, id)))

SubComponentParams(b) == {b.super_uuid, b.place, b.note}

InsertSubComponent(d, n, b) ==
    sql(d, SubComponentParams(b),
        InsertRow(d, "sub_component", SubComponentRow(Uuid(n), b),
                  ComponentExists(d, b.super_uuid)))

SelectSubComponents(d, id) ==
    sql(d, {id}, Returned({r \in d.sub_component : r.super_uuid = id}, d, 0))

UpdateSubComponent(d, id, b) ==
    sql(d, SubComponentParams(b) \cup {id},
        UpdateRow(d, "sub_component", id, SubComponentRow(id, b),
                  ComponentExists(d, b.super_uuid)))

DeleteSubComponent(d, id) ==
    sql(d, {id}, DeleteRow(d, "sub_component", id, FALSE))

\* ---------------------------------------------------------- responses

\* An HTTP response: the status and the JSON body's members (those a response
\* does not carry are empty).  Status 0 stands for "no response yet".
Response(status, error, details, errors, rows) ==
    [rows |-> rows, error |-> error, status |-> status, details |-> details,
     errors |-> errors]

NoResponse == Response(0, "", "", << >>, {})
Json(status, rows) == Response(status, "", "", << >>, rows)
NoContent == Response(204, "", "", << >>, {})
NotFound(msg) == Response(404, msg, "", << >>, {})
InvalidUUID == Response(400, "Invalid UUID", "", << >>, {})
BadRequest(errors) == Response(400, "", "", errors, {})
\* A variant whose 500 drops err.message.
FailedWithoutDetails(msg, details) == Response(500, msg, "", << >>, {})
Failed(msg, details) == Response(500, msg, details, << >>, {})
\* Express's own error handler, for an exception a middleware throws.
Uncaught(msg) == Response(500, msg, "", << >>, {})

NotAFunction == "TypeError: uuidValidate is not a function"

\* ---------------------------------------------------------- middleware

\* Line 6 takes the property `v4` of what uuid-validate exports.  The package
\* exports one function (with a `version` property) and no `v4`, so the name is
\* bound to undefined and the call on line 17 throws; a build whose package
\* does export a validator under that name is the other outcome.
validateUUID(binding, uuid) ==
    IF binding = "undefined" THEN Uncaught(NotAFunction)
    ELSE IF ~UuidShaped(uuid) THEN InvalidUUID
    ELSE NoResponse

\* The head of every write handler: the collected errors, or on to the statement.
CheckBody(rules, body) ==
    LET errors == validationResult(rules, body)
    IN  IF errors # << >> THEN BadRequest(errors) ELSE NoResponse

\* validateUUID and then the body rules, the first response ending the chain.
CheckUuidThenBody(binding, uuid, rules, body) ==
    LET first == validateUUID(binding, uuid)
    IN  IF first # NoResponse THEN first ELSE CheckBody(rules, body)

\* ---------------------------------------------------------- connections

Request(route, uuid, body) == [body |-> body, uuid |-> uuid, route |-> route]
\* A request without a JSON body.
NoBody == [absent |-> TRUE]
NoRequest == Request("", NoParam, NoBody)

Idle == [phase |-> "idle", req |-> NoRequest, res |-> NoResponse]
Awaiting(req) == [phase |-> "awaiting", req |-> req, res |-> NoResponse]
Answered(req, res) == [phase |-> "answered", req |-> req, res |-> res]

Conns == 1..MaxInFlight

IsInsert(req) ==
    req.route \in {"POST /api/categories", "POST /api/sub-categories",
                   "POST /api/components", "POST /api/sub-components"}

\* The identifiers the awaiting inserts may still ask the store for.
Reserved == Cardinality({c \in Conns : conn[c].phase = "awaiting" /\ IsInsert(conn[c].req)})

\* A request arrives on connection c and runs to its first response or to its
\* awaited statement.
Arrive(c, req, early) ==
    /\ conn[c].phase = "idle"
    /\ IsInsert(req) => nextUuid + Reserved < MaxRows
    /\ conn' = [conn EXCEPT ![c] =
                   IF early = NoResponse THEN Awaiting(req) ELSE Answered(req, early)]
    /\ UNCHANGED <<db, nextUuid, uuidValidate>>

\* The client has read the answer; the connection is free for a next request.
Release(c) ==
    /\ conn[c].phase = "answered"
    /\ conn' = [conn EXCEPT ![c] = Idle]
    /\ UNCHANGED <<db, nextUuid, uuidValidate>>

\* ------------------------------------------------ after the statement

\* What the continuation of a handler leaves: the statement's outcome and the
\* response sent.
Done(out, res) == [res |-> res, out |-> out]

\* A variant without the catch: the rows are answered whatever happened.
CreatedDespiteError(out, failure) == Done(out, Json(201, out.rows))

\* try { rows = await sql; res.status(201).json(rows) } catch { 500 }
Created(out, failure) ==
    Done(out, IF out.error # "" THEN Failed(failure, out.error)
              ELSE Json(201, out.rows))

\* try { rows = await sql; res.status(200).json(rows) } catch { 500 }
Fetched(out, failure) ==
    Done(out, IF out.error # "" THEN Failed(failure, out.error)
              ELSE Json(200, out.rows))

\* try { rows = await sql; rows.length === 0 ? 404 : 200 } catch { 500 }
Updated(out, failure, missing) ==
    Done(out, IF out.error # "" THEN Failed(failure, out.error)
              ELSE IF out.rows = {} THEN NotFound(missing)
              ELSE Json(200, out.rows))

\* try { rows = await sql; rows.length === 0 ? 404 : 204 } catch { 500 }
Deleted(out, failure, missing) ==
    Done(out, IF out.error # "" THEN Failed(failure, out.error)
              ELSE IF out.rows = {} THEN NotFound(missing)
              ELSE NoContent)

\* --------------------------------------------------------- the routes

\* Each route: the synchronous head (middleware, validation) as an action, and
\* the statement with its continuation as the operator <Route>Then.

PostCategories(c, b) ==
    Arrive(c, Request("POST /api/categories", NoParam, b), CheckBody(CategoryRules, b))

PostCategoriesThen(d, n, req) ==
    Created(InsertCategory(d, n, req.body), "Failed to create category")

GetCategories(c) ==
    Arrive(c, Request("GET /api/categories", NoParam, NoBody), NoResponse)

GetCategoriesThen(d, n, req) ==
    Fetched(SelectCategories(d), "Failed to fetch categories")

PutCategory(c, id, b) ==
    Arrive(c, Request("PUT /api/categories/:uuid", id, b),
           CheckUuidThenBody(uuidValidate, id, CategoryRules, b))

PutCategoryThen(d, n, req) ==
    Updated(UpdateCategory(d, req.uuid, req.body), "Failed to update category",
            "Category not found")

DeleteCategoryRoute(c, id) ==
    Arrive(c, Request("DELETE /api/categories/:uuid", id, NoBody), validateUUID(uuidValidate, id))

DeleteCategoryRouteThen(d, n, req) ==
    Deleted(DeleteCategory(d, req.uuid), "Failed to delete category",
            "Category not found")

PostSubCategories(c, b) ==
    Arrive(c, Request("POST /api/sub-categories", NoParam, b), CheckBody(SubCategoryRules, b))

PostSubCategoriesThen(d, n, req) ==
    Created(InsertSubCategory(d, n, req.body), "Failed to create sub-category")

GetSubCategories(c, id) ==
    Arrive(c, Request("GET /api/sub-categories/:uuid", id, NoBody), validateUUID(uuidValidate, id))

GetSubCategoriesThen(d, n, req) ==
    Fetched(SelectSubCategories(d, req.uuid), "Failed to fetch sub-categories")

PutSubCategory(c, id, b) ==
    Arrive(c, Request("PUT /api/sub-categories/:uuid", id, b),
           CheckUuidThenBody(uuidValidate, id, SubCategoryRules, b))

PutSubCategoryThen(d, n, req) ==
    Updated(UpdateSubCategory(d, req.uuid, req.body), "Failed to update sub-category",
            "Sub-category not found")

DeleteSubCategoryRoute(c, id) ==
    Arrive(c, Request("DELETE /api/sub-categories/:uuid", id, NoBody), validateUUID(uuidValidate, id))

DeleteSubCategoryRouteThen(d, n, req) ==
    Deleted(DeleteSubCategory(d, req.uuid), "Failed to delete sub-category",
            "Sub-category not found")

PostComponents(c, b) ==
    Arrive(c, Request("POST /api/components", NoParam, b), CheckBody(ComponentRules, b))

PostComponentsThen(d, n, req) ==
    Created(InsertComponent(d, n, req.body), "Failed to create component")

GetComponents(c) ==
    Arrive(c, Request("GET /api/components", NoParam, NoBody), NoResponse)

GetComponentsThen(d, n, req) ==
    Fetched(SelectComponents(d), "Failed to fetch components")

GetComponentsByCategory(c, id) ==
    Arrive(c, Request("GET /api/components/category/:uuid", id, NoBody), validateUUID(uuidValidate, id))

GetComponentsByCategoryThen(d, n, req) ==
    Fetched(SelectComponentsByCategory(d, req.uuid), "Failed to fetch components by category")

GetComponentsBySubCategory(c, id) ==
    Arrive(c, Request("GET /api/components/sub-category/:uuid", id, NoBody), validateUUID(uuidValidate, id))

GetComponentsBySubCategoryThen(d, n, req) ==
    Fetched(SelectComponentsBySubCategory(d, req.uuid), "Failed to fetch components by sub-category")

PutComponent(c, id, b) ==
    Arrive(c, Request("PUT /api/components/:uuid", id, b),
           CheckUuidThenBody(uuidValidate, id, ComponentRules, b))

PutComponentThen(d, n, req) ==
    Updated(UpdateComponent(d, req.uuid, req.body), "Failed to update component",
            "Component not found")

DeleteComponentRoute(c, id) ==
    Arrive(c, Request("DELETE /api/components/:uuid", id, NoBody), validateUUID(uuidValidate, id))

DeleteComponentRouteThen(d, n, req) ==
    Deleted(DeleteComponent(d, req.uuid), "Failed to delete component",
            "Component not found")

PostSubComponents(c, b) ==
    Arrive(c, Request("POST /api/sub-components", NoParam, b), CheckBody(SubComponentRules, b))

PostSubComponentsThen(d, n, req) ==
    Created(InsertSubComponent(d, n, req.body), "Failed to create sub-component")

GetSubComponents(c, id) ==
    Arrive(c, Request("GET /api/sub-components/component/:uuid", id, NoBody), validateUUID(uuidValidate, id))

GetSubComponentsThen(d, n, req) ==
    Fetched(SelectSubComponents(d, req.uuid), "Failed to fetch sub-components")

PutSubComponent(c, id, b) ==
    Arrive(c, Request("PUT /api/sub-components/:uuid", id, b),
           CheckUuidThenBody(uuidValidate, id, SubComponentRules, b))

PutSubComponentThen(d, n, req) ==
    Updated(UpdateSubComponent(d, req.uuid, req.body), "Failed to update sub-component",
            "Sub-component not found")

DeleteSubComponentRoute(c, id) ==
    Arrive(c, Request("DELETE /api/sub-components/:uuid", id, NoBody), validateUUID(uuidValidate, id))

DeleteSubComponentRouteThen(d, n, req) ==
    Deleted(DeleteSubComponent(d, req.uuid), "Failed to delete sub-component",
            "Sub-component not found")

\* The continuation of the handler that `req` is awaiting in.
Handler(d, n, req) ==
    CASE req.route = "POST /api/categories" ->
            PostCategoriesThen(d, n, req)
      [] req.route = "GET /api/categories" ->
            GetCategoriesThen(d, n, req)
      [] req.route = "PUT /api/categories/:uuid" ->
            PutCategoryThen(d, n, req)
      [] req.route = "DELETE /api/categories/:uuid" ->
            DeleteCategoryRouteThen(d, n, req)
      [] req.route = "POST /api/sub-categories" ->
            PostSubCategoriesThen(d, n, req)
      [] req.route = "GET /api/sub-categories/:uuid" ->
            GetSubCategoriesThen(d, n, req)
      [] req.route = "PUT /api/sub-categories/:uuid" ->
            PutSubCategoryThen(d, n, req)
      [] req.route = "DELETE /api/sub-categories/:uuid" ->
            DeleteSubCategoryRouteThen(d, n, req)
      [] req.route = "POST /api/components" ->
            PostComponentsThen(d, n, req)
      [] req.route = "GET /api/components" ->
            GetComponentsThen(d, n, req)
      [] req.route = "GET /api/components/category/:uuid" ->
            GetComponentsByCategoryThen(d, n, req)
      [] req.route = "GET /api/components/sub-category/:uuid" ->
            GetComponentsBySubCategoryThen(d, n, req)
      [] req.route = "PUT /api/components/:uuid" ->
            PutComponentThen(d, n, req)
      [] req.route = "DELETE /api/components/:uuid" ->
            DeleteComponentRouteThen(d, n, req)
      [] req.route = "POST /api/sub-components" ->
            PostSubComponentsThen(d, n, req)
      [] req.route = "GET /api/sub-components/component/:uuid" ->
            GetSubComponentsThen(d, n, req)
      [] req.route = "PUT /api/sub-components/:uuid" ->
            PutSubComponentThen(d, n, req)
      [] req.route = "DELETE /api/sub-components/:uuid" ->
            DeleteSubComponentRouteThen(d, n, req)

\* The store runs the awaited statement of connection c and the handler answers.
Complete(c) ==
    /\ conn[c].phase = "awaiting"
    /\ LET h == Handler(db, nextUuid + 1, conn[c].req)
       IN  /\ db' = h.out.db
           /\ nextUuid' = nextUuid + h.out.made
           /\ conn' = [conn EXCEPT ![c] = Answered(conn[c].req, h.res)]
    /\ UNCHANGED uuidValidate

\* ------------------------------------------------------- what clients send

\* Bodies that fail the rules in every combination, and well-formed bodies that
\* name each identifier in each foreign-key field.
CategoryBodies == [categoryName : {Undefined, "", "tools", "bolts"}]

SubCategoryBodies ==
    [parent : {Undefined, PersistedCategory}, subCategoryName : {"", "hex"}]
    \cup
    [parent : AllUuids, subCategoryName : {"hex"}]

ComponentBodies ==
    [category : {PersistedCategory}, sub_category : {"", PersistedSubCategory},
     reference : {"", "M8"}, quantity : {"-1", "0"},
     date_checked : {"not-a-date", "2024-01-15"}]
    \cup
    [category : AllUuids, sub_category : {PersistedSubCategory},
     reference : {"M8"}, quantity : {"2"}, date_checked : {"2024-01-15"}]
    \cup
    [category : {PersistedCategory}, sub_category : AllUuids,
     reference : {"M8"}, quantity : {"2"}, date_checked : {"2024-01-15"}]

SubComponentBodies ==
    [super_uuid : {"", PersistedComponent}, place : {"", "shelf"},
     note : {Undefined, "spare", NotAString}]
    \cup
    [super_uuid : AllUuids, place : {"shelf"}, note : {"", "spare"}]

\* The database outlives the server: it may start with a category, a
\* sub-category of it and a component of both, written by an earlier run.
PersistedDb ==
    [category |-> {[uuid |-> PersistedCategory, categoryName |-> "tools"]},
     sub_category |-> {[uuid |-> PersistedSubCategory, parent |-> PersistedCategory,
                        subCategoryName |-> "hex"]},
     component |-> {[category |-> PersistedCategory,
                     sub_category |-> PersistedSubCategory,
                     uuid |-> PersistedComponent, reference |-> "M8",
                     quantity |-> 2, date_checked |-> "2024-01-15"]},
     sub_component |-> {}]

\* --------------------------------------------------------- specification

Init ==
    /\ db \in {EmptyDb, PersistedDb}
    /\ nextUuid = 0
    /\ uuidValidate \in {"function", "undefined"}
    /\ conn = [c \in Conns |-> Idle]

\* The requests a client may send on connection c.
Send(c) ==
    \/ \E b \in CategoryBodies : PostCategories(c, b)
    \/ GetCategories(c)
    \/ \E id \in PathParams, b \in CategoryBodies : PutCategory(c, id, b)
    \/ \E id \in PathParams : DeleteCategoryRoute(c, id)
    \/ \E b \in SubCategoryBodies : PostSubCategories(c, b)
    \/ \E id \in PathParams : GetSubCategories(c, id)
    \/ \E id \in PathParams, b \in SubCategoryBodies : PutSubCategory(c, id, b)
    \/ \E id \in PathParams : DeleteSubCategoryRoute(c, id)
    \/ \E b \in ComponentBodies : PostComponents(c, b)
    \/ GetComponents(c)
    \/ \E id \in PathParams : GetComponentsByCategory(c, id)
    \/ \E id \in PathParams : GetComponentsBySubCategory(c, id)
    \/ \E id \in PathParams, b \in ComponentBodies : PutComponent(c, id, b)
    \/ \E id \in PathParams : DeleteComponentRoute(c, id)
    \/ \E b \in SubComponentBodies : PostSubComponents(c, b)
    \/ \E id \in PathParams : GetSubComponents(c, id)
    \/ \E id \in PathParams, b \in SubComponentBodies : PutSubComponent(c, id, b)
    \/ \E id \in PathParams : DeleteSubComponentRoute(c, id)

\* One client: each request is answered before the next is sent.
Next ==
    \/ Send(1)
    \/ Complete(1)
    \/ Release(1)

Spec == Init /\ [][Next]_vars

\* ------------------------------------------- several clients at once

InitConcurrent ==
    /\ db = PersistedDb
    /\ nextUuid = 0
    /\ uuidValidate \in {"function", "undefined"}
    /\ conn = [c \in Conns |-> Idle]

\* Requests about the persisted component: well-formed updates of it (one
\* naming a sub-category that does not exist), its sub-components (one without
\* a note, one of a component that does not exist), and deletions.
ConcurrentComponentBodies ==
    [category : {PersistedCategory},
     sub_category : {PersistedCategory, PersistedSubCategory},
     reference : {"M8"}, quantity : {"0"}, date_checked : {"2024-01-15"}]

ConcurrentSubComponentBodies ==
    [super_uuid : {PersistedCategory, PersistedComponent}, place : {"shelf"}, note : {Undefined, "spare"}]

SendConcurrent(c) ==
    \/ \E b \in ConcurrentComponentBodies : PutComponent(c, PersistedComponent, b)
    \/ DeleteComponentRoute(c, PersistedComponent)
    \/ \E b \in ConcurrentSubComponentBodies : PostSubComponents(c, b)
    \/ GetSubComponents(c, PersistedComponent)
    \/ \E id \in Uuids : DeleteSubComponentRoute(c, id)

NextConcurrent ==
    \E c \in Conns :
        \/ SendConcurrent(c)
        \/ Complete(c)
        \/ Release(c)

SpecConcurrent == InitConcurrent /\ [][NextConcurrent]_vars

\* ------------------------------------------------- reading a step

PostRoutes ==
    {"POST /api/categories", "POST /api/sub-categories",
     "POST /api/components", "POST /api/sub-components"}
PutRoutes ==
    {"PUT /api/categories/:uuid", "PUT /api/sub-categories/:uuid",
     "PUT /api/components/:uuid", "PUT /api/sub-components/:uuid"}
DeleteRoutes ==
    {"DELETE /api/categories/:uuid", "DELETE /api/sub-categories/:uuid",
     "DELETE /api/components/:uuid", "DELETE /api/sub-components/:uuid"}
ScopedGetRoutes ==
    {"GET /api/sub-categories/:uuid", "GET /api/components/category/:uuid",
     "GET /api/components/sub-category/:uuid",
     "GET /api/sub-components/component/:uuid"}
UuidRoutes == PutRoutes \cup DeleteRoutes \cup ScopedGetRoutes

\* The table a write route works on, its rules and its "not found" text.
TableOf(route) ==
    CASE route \in {"POST /api/categories", "PUT /api/categories/:uuid",
                    "DELETE /api/categories/:uuid"} -> "category"
      [] route \in {"POST /api/sub-categories", "PUT /api/sub-categories/:uuid",
                    "DELETE /api/sub-categories/:uuid"} -> "sub_category"
      [] route \in {"POST /api/components", "PUT /api/components/:uuid",
                    "DELETE /api/components/:uuid"} -> "component"
      [] route \in {"POST /api/sub-components", "PUT /api/sub-components/:uuid",
                    "DELETE /api/sub-components/:uuid"} -> "sub_component"

RulesOf(route) ==
    CASE TableOf(route) = "category" -> CategoryRules
      [] TableOf(route) = "sub_category" -> SubCategoryRules
      [] TableOf(route) = "component" -> ComponentRules
      [] TableOf(route) = "sub_component" -> SubComponentRules

NotFoundText(route) ==
    CASE TableOf(route) = "category" -> "Category not found"
      [] TableOf(route) = "sub_category" -> "Sub-category not found"
      [] TableOf(route) = "component" -> "Component not found"
      [] TableOf(route) = "sub_component" -> "Sub-component not found"

\* The row of `table` with identifier id is referenced by another row.
Referenced(d, table, id) ==
    CASE table = "category" -> CategoryReferenced(d, id)
      [] table = "sub_category" -> SubCategoryReferenced(d, id)
      [] table = "component" -> ComponentReferenced(d, id)
      [] table = "sub_component" -> FALSE

\* The body names, in a foreign-key field, an identifier of no row.
Dangling(d, table, b) ==
    CASE table = "category" -> FALSE
      [] table = "sub_category" -> ~CategoryExists(d, b.parent)
      [] table = "component" ->
            ~CategoryExists(d, b.category) \/ ~SubCategoryExists(d, b.sub_category)
      [] table = "sub_component" -> ~ComponentExists(d, b.super_uuid)

\* In this step connection c gets its response.
AnswersNow(c) == conn[c].phase # "answered" /\ conn'[c].phase = "answered"
\* In this step the store has run the statement connection c was awaiting.
CompletesNow(c) == conn[c].phase = "awaiting" /\ conn'[c].phase = "answered"

StoreUntouched == db' = db /\ nextUuid' = nextUuid

\* The body passes every rule of its route and leaves no parameter undefined.
Storable(route, b) ==
    /\ FailedRules(RulesOf(route), b) = << >>
    /\ \A f \in DOMAIN b : b[f] # Undefined

\* Run as written, the request's statement would leave a reference to no row.
WouldBreak(d, req) ==
    \/ /\ req.route \in PostRoutes
       /\ FailedRules(RulesOf(req.route), req.body) = << >>
       /\ Dangling(d, TableOf(req.route), req.body)
    \/ /\ req.route \in PutRoutes
       /\ req.uuid \in Ids(d[TableOf(req.route)])
       /\ FailedRules(RulesOf(req.route), req.body) = << >>
       /\ Dangling(d, TableOf(req.route), req.body)
    \/ /\ req.route \in DeleteRoutes
       /\ req.uuid \in Ids(d[TableOf(req.route)])
       /\ Referenced(d, TableOf(req.route), req.uuid)

\* The awaited statement of `req` fails: a parameter is undefined, or it would
\* leave a reference to no row.
StatementFails(d, req) ==
    \/ /\ req.route \in PostRoutes \cup PutRoutes
       /\ \E f \in DOMAIN req.body : req.body[f] = Undefined
    \/ WouldBreak(d, req)

ExpectedError(req) ==
    IF /\ req.route \in PostRoutes \cup PutRoutes
       /\ \E f \in DOMAIN req.body : req.body[f] = Undefined
    THEN UndefinedValue
    ELSE FkViolation

\* ---------------------------------------------------------------- claims

\* C1: on every route with a :uuid parameter, a request whose :uuid is not
\* UUID-shaped is answered 400 {error: "Invalid UUID"} before any statement is
\* issued, and the store is unchanged.
C1_MalformedUuidGets400 ==
    [][\A c \in Conns :
          (/\ AnswersNow(c)
           /\ conn'[c].req.route \in UuidRoutes
           /\ ~UuidShaped(conn'[c].req.uuid))
          => /\ conn'[c].res = InvalidUUID
             /\ conn[c].phase = "idle"
             /\ StoreUntouched]_vars

\* C2: a PUT whose well-formed identifier matches no row, with a valid body, is
\* answered 404 with the entity's "not found" text and changes no table.
C2_PutOfUnknownIdGets404 ==
    [][\A c \in Conns :
          (/\ AnswersNow(c)
           /\ conn'[c].req.route \in PutRoutes
           /\ UuidShaped(conn'[c].req.uuid)
           /\ conn'[c].req.uuid \notin Ids(db[TableOf(conn'[c].req.route)])
           /\ Storable(conn'[c].req.route, conn'[c].req.body))
          => /\ conn'[c].res = NotFound(NotFoundText(conn'[c].req.route))
             /\ db' = db]_vars

\* C3: a DELETE of an existing row (one nothing refers to) is answered 204 and
\* removes the row; a DELETE of an identifier that matches no row, as a second
\* DELETE does, is answered 404 and changes nothing.
C3_DeleteThenDeleteAgain ==
    [][\A c \in Conns :
          (/\ AnswersNow(c)
           /\ conn'[c].req.route \in DeleteRoutes
           /\ UuidShaped(conn'[c].req.uuid))
          => LET t == TableOf(conn'[c].req.route)
                 id == conn'[c].req.uuid
             IN  IF id \in Ids(db[t])
                 THEN ~Referenced(db, t, id)
                      => /\ conn'[c].res.status = 204
                         /\ db' = [db EXCEPT ![t] = {r \in @ : r.uuid # id}]
                 ELSE /\ conn'[c].res.status = 404
                      /\ db' = db]_vars

C5_NegativeQuantityGets400 ==
    /\ [](\A r \in db.component : r.quantity >= 0)
    /\ [][\A c \in Conns :
             (/\ AnswersNow(c)
              /\ \/ conn'[c].req.route = "POST /api/components"
                 \/ /\ conn'[c].req.route = "PUT /api/components/:uuid"
                    /\ UuidShaped(conn'[c].req.uuid)
              /\ IsNumeral(conn'[c].req.body.quantity)
              /\ IntOf(conn'[c].req.body.quantity) < 0)
             => /\ conn'[c].res.status = 400
                /\ \E i \in DOMAIN conn'[c].res.errors :
                      conn'[c].res.errors[i].path = "quantity"
                /\ conn[c].phase = "idle"
                /\ StoreUntouched]_vars

\* C6: a write request (POST, or PUT on a well-formed identifier) whose body
\* fails several rules is answered by one 400 whose error list has one entry
\* per failed rule, and persists nothing.
C6_OneErrorPerFailedRule ==
    [][\A c \in Conns :
          (/\ AnswersNow(c)
           /\ \/ conn'[c].req.route \in PostRoutes
              \/ /\ conn'[c].req.route \in PutRoutes
                 /\ UuidShaped(conn'[c].req.uuid)
           /\ Len(FailedRules(RulesOf(conn'[c].req.route), conn'[c].req.body)) >= 2)
          => LET failed == FailedRules(RulesOf(conn'[c].req.route), conn'[c].req.body)
             IN  /\ conn'[c].res.status = 400
                 /\ Len(conn'[c].res.errors) = Len(failed)
                 /\ \A i \in 1..Len(failed) :
                       conn'[c].res.errors[i].path = failed[i].path
                 /\ StoreUntouched]_vars

\* Every foreign key of every stored row names a stored row.
ForeignKeysHold ==
    /\ \A r \in db.sub_category : CategoryExists(db, r.parent)
    /\ \A r \in db.component :
          CategoryExists(db, r.category) /\ SubCategoryExists(db, r.sub_category)
    /\ \A r \in db.sub_component : ComponentExists(db, r.super_uuid)

\* C7: every stored foreign-key reference names an existing row, and a request
\* that would break this (a create or an update of a row with a reference to no
\* row, a delete of a row still referred to) is answered 500 and changes nothing.
C7_ReferencesStayValid ==
    /\ []ForeignKeysHold
    /\ [][\A c \in Conns :
             (AnswersNow(c) /\ WouldBreak(db, conn'[c].req))
             => /\ conn'[c].res.status = 500
                /\ StoreUntouched]_vars

\* C7 witness: a component posted with an existing category and a sub-category
\* that does not exist has been answered 500 with the store's message.
C7_DanglingCreateRefused ==
    \E c \in Conns :
        /\ conn[c].phase = "answered"
        /\ conn[c].req.route = "POST /api/components"
        /\ CategoryExists(db, conn[c].req.body.category)
        /\ ~SubCategoryExists(db, conn[c].req.body.sub_category)
        /\ conn[c].res.status = 500
        /\ conn[c].res.details = FkViolation
        /\ uuidValidate = "undefined"

C9_CreateWithoutNote ==
    [][\A c \in Conns :
          (/\ AnswersNow(c)
           /\ conn'[c].req.route = "POST /api/sub-components"
           /\ ComponentExists(db, conn'[c].req.body.super_uuid)
           /\ PassesNotEmpty(conn'[c].req.body.place)
           /\ conn'[c].req.body.note = Undefined)
          => /\ conn'[c].res.status = 201
             /\ \E r \in db'.sub_component \ db.sub_component : r.note # ""]_vars

\* Another connection has a DELETE or PUT in hand for the same component.
Contended(c, id) ==
    \E o \in Conns \ {c} :
        /\ conn[o].phase # "idle"
        /\ conn[o].req.uuid = id
        /\ conn[o].req.route \in {"DELETE /api/components/:uuid",
                                 "PUT /api/components/:uuid"}

\* C10: of the DELETE and PUT requests that clients run at once on one
\* component (nothing referring to it, the PUT naming existing rows), a DELETE
\* whose statement finds the row is answered 204 and removes it, every other
\* DELETE is answered 404, a PUT is answered 200 if its statement finds the row
\* and 404 otherwise, and after a 204 the row is absent.
C10_ConcurrentDeleteAndPut ==
    /\ [](\A c \in Conns :
             (/\ conn[c].phase = "answered"
              /\ conn[c].req.route = "DELETE /api/components/:uuid"
              /\ conn[c].res.status = 204)
             => conn[c].req.uuid \notin Ids(db.component))
    /\ [][\A c \in Conns :
             /\ (/\ AnswersNow(c)
                 /\ conn'[c].req.route = "DELETE /api/components/:uuid"
                 /\ UuidShaped(conn'[c].req.uuid)
                 /\ Contended(c, conn'[c].req.uuid)
                 /\ ~ComponentReferenced(db, conn'[c].req.uuid))
                => conn'[c].res.status =
                      IF ComponentExists(db, conn'[c].req.uuid) THEN 204 ELSE 404
             /\ (/\ AnswersNow(c)
                 /\ conn'[c].req.route = "PUT /api/components/:uuid"
                 /\ UuidShaped(conn'[c].req.uuid)
                 /\ Contended(c, conn'[c].req.uuid)
                 /\ Storable(conn'[c].req.route, conn'[c].req.body)
                 /\ ~Dangling(db, "component", conn'[c].req.body))
                => conn'[c].res.status =
                      IF ComponentExists(db, conn'[c].req.uuid) THEN 200 ELSE 404]_vars

\* ------------------------------------------- what holds on either binding

\* Whatever line 6 binds, a request with a malformed :uuid is answered without
\* a statement being issued, and the store is unchanged.
MalformedUuidNeverReachesStore ==
    [][\A c \in Conns :
          (/\ AnswersNow(c)
           /\ conn'[c].req.route \in UuidRoutes
           /\ ~UuidShaped(conn'[c].req.uuid))
          => /\ conn[c].phase = "idle"
             /\ conn'[c].res.status \in {400, 500}
             /\ StoreUntouched]_vars

\* A POST whose body fails rules is answered by one 400 with one entry per
\* failed rule, in the order of the chains, and persists nothing.
PostCollectsEveryFailedRule ==
    [][\A c \in Conns :
          (/\ AnswersNow(c)
           /\ conn'[c].req.route \in PostRoutes
           /\ FailedRules(RulesOf(conn'[c].req.route), conn'[c].req.body) # << >>)
          => LET failed == FailedRules(RulesOf(conn'[c].req.route), conn'[c].req.body)
             IN  /\ conn'[c].res.status = 400
                 /\ Len(conn'[c].res.errors) = Len(failed)
                 /\ \A i \in 1..Len(failed) :
                       /\ conn'[c].res.errors[i].path = failed[i].path
                       /\ conn'[c].res.errors[i].msg = failed[i].msg
                 /\ conn[c].phase = "idle"
                 /\ StoreUntouched]_vars

\* No stored component has a negative quantity, and no request with a negative
\* quantity ever has a statement issued.
NegativeQuantityNeverStored ==
    /\ \A r \in db.component : r.quantity >= 0
    /\ \A c \in Conns :
          (/\ conn[c].phase = "awaiting"
           /\ conn[c].req.route \in {"POST /api/components", "PUT /api/components/:uuid"})
          => IntOf(conn[c].req.body.quantity) >= 0

=============================================================================
